---- MODULE Spec2Model ----
(***************************************************************************)
(* Model of the stateful React components of VisualAILearning:             *)
(*                                                                         *)
(*   InteractiveTreeViewer  - a binary search tree kept in React state     *)
(*                            (nodes, rootId) and four animated, timer     *)
(*                            driven traversals (SpecTree);                *)
(*   VisualizationViewer    - the step playback controller (currentStep,   *)
(*                            isPlaying, speed, zoom) and its auto-play    *)
(*                            effect (SpecPlay; SpecZoom with the zoom     *)
(*                            buttons, SpecDoc with the parent replacing   *)
(*                            the document; SpecAuto with the controls     *)
(*                            used only while idle and fair timers);       *)
(*   VisualizationCanvas    - the render effect that draws a document's    *)
(*                            components for the current step (SpecCanvas).*)
(*                                                                         *)
(* SpecLoad is SpecTree with the "Quick Examples" buttons, SpecInput with  *)
(* the value field, SpecLevel with insertions in distinct milliseconds,    *)
(* SpecLive with traversals of any length and fair timers.                 *)
(*                                                                         *)
(* Execution model.  JavaScript runs one task at a time.  An event handler *)
(* or a timer callback runs to its next pending timer without interleaving *)
(* and is one action here.  React re-renders after each task, so a handler *)
(* started by a later event closes over the committed state.  An async     *)
(* traversal keeps the closure of the render it was started from: it reads *)
(* the node map of that render (trav.snap) for its whole life.             *)
(*                                                                         *)
(* Object identity.  insertNode and resetNodeStates write into node        *)
(* objects in place, updateNodeState replaces a node object by a copy.  A  *)
(* traversal's map and the committed map share the object of an id until   *)
(* that id is replaced in the committed map; trav.shared is the set of ids *)
(* whose object is still shared, and an in-place write to a shared object  *)
(* is applied to both maps.                                                *)
(***************************************************************************)
EXTENDS Integers, Sequences, FiniteSets, TLC

VARIABLES
    \* ---- InteractiveTreeViewer ----
    nodes,           \* useState nodes: id -> node object
    rootId,          \* useState rootId (Null when absent)
    traversalOrder,  \* useState traversalOrder
    isTraversing,    \* useState isTraversing
    selectedTraversal, \* useState selectedTraversal
    clock,           \* last value Date.now() returned
    elapsed,         \* TRUE when a timed wait ended since Date.now() was last read
    trav,            \* the in-flight async traversal (its continuation), or NoTrav
    inserted,        \* history: values passed to insertNode since the tree was last emptied
    inputValue,      \* useState inputValue: the text of the value field, a sequence of characters
    \* ---- VisualizationViewer ----
    steps,           \* data.steps, each step reduced to its duration
    isTree,          \* data.visualization_type === "tree"
    currentStep,     \* useState currentStep
    isPlaying,       \* useState isPlaying
    speed2,          \* useState speed, in halves (speed = speed2 / 2)
    zoom10,          \* useState zoom, in tenths (zoom = zoom10 / 10)
    traversalMode,   \* useState traversalMode
    timer,           \* the auto-play effect's pending setTimeout, or NoTimer
    \* ---- VisualizationCanvas ----
    canvas,          \* the props of the canvas: data.visualization_type, data.components
                     \* and the highlight list of data.steps[currentStep]
    drawn,           \* the calls made on the 2D context by the last run of the render effect
    \* ---- both ----
    lastOp,          \* history: the operation performed by the last step
    lastEnd,         \* history: the traversal the last step ended, or NoEnd
    repeat,          \* history: how many times in a row lastOp was called (playback)
    before,          \* history: the playback state the last operation was called in
    page             \* "ok", or what ended the page: "crashed" (a render or an effect
                     \* threw, React unmounted the application) or "hung" (a handler
                     \* never returned)

treeVars == <<nodes, rootId, traversalOrder, isTraversing, selectedTraversal,
              clock, elapsed, trav, inserted, inputValue>>
playVars == <<steps, isTree, currentStep, isPlaying, speed2, zoom10,
              traversalMode, timer>>
canvasVars == <<canvas, drawn>>
vars == <<treeVars, playVars, canvasVars, lastOp, lastEnd, repeat, before, page>>

(***************************************************************************)
(* Bounds of the model.                                                    *)
(***************************************************************************)
MaxInserts == 3      \* insertNode calls between two emptyings of the tree
MaxClock == 2        \* Date.now() values distinguished
MaxValue == 3        \* inserted values are 1..MaxValue
MaxSteps == 3        \* longest steps sequence of a document
MaxVisits == 4       \* visits of one traversal (one that runs into a cycle never ends)
MaxDisturb == 1      \* insertNode / clearTree calls while one traversal is in flight
MaxRepeat == 2       \* consecutive calls of one playback operation told apart
MaxLater == 3        \* Date.now() values of insertions at least 1 ms apart
MaxComps == 2        \* components of a document drawn on the canvas

Null == 0
Values == 1..MaxValue
Kinds == {"inorder", "preorder", "postorder", "levelorder"}

\* x coordinates are kept in units of 1/XScale so that 150 / depth is exact
\* for every depth up to 7.
XScale == 60 * 7

NoTrav == [kind |-> "none"]
NoTimer == [pending |-> FALSE]
NoEnd == [outcome |-> "none"]
NoBefore == [step |-> 0, playing |-> FALSE, pending |-> FALSE]

\* events and timers reach the components only while the page is mounted and
\* responsive
Mounted == page = "ok"

(***************************************************************************)
(*                         VisualizationCanvas                             *)
(* The render effect as the sequence of shapes it draws on the 2D context. *)
(* A shape stands for the context calls that draw it; its field            *)
(* highlighted stands for the colours and the line width chosen for it,    *)
(* and the fields of, from and to name the components it was drawn for.    *)
(* Component ids are 1..MaxComps.                                          *)
(***************************************************************************)
\* a truthy numeric property: present and not 0
Truthy(props, f) == f \in DOMAIN props /\ props[f] # 0

\* props[f] || d
OrElse(props, f, d) == IF Truthy(props, f) THEN props[f] ELSE d

FindComponent_FirstWhenMissing(cs, targetId) ==
    LET hits == {i \in 1..Len(cs) : cs[i].id = targetId} IN
    IF hits = {} THEN (IF Len(cs) > 0 THEN 1 ELSE 0)
    ELSE CHOOSE i \in hits : \A j \in hits : i <= j

\* data.components.find((c) => c.id === targetId): the index of the first
\* component of that id, 0 for undefined
FindComponent(cs, targetId) ==
    LET hits == {i \in 1..Len(cs) : cs[i].id = targetId} IN
    IF hits = {} THEN 0
    ELSE CHOOSE i \in hits : \A j \in hits : i <= j

\* component.properties.label || component.content || ""
LabelText(c) ==
    IF "label" \in DOMAIN c.properties /\ c.properties.label # "" THEN c.properties.label
    ELSE IF "content" \in DOMAIN c /\ c.content # "" THEN c.content
    ELSE ""

RECURSIVE Flatten(_)
Flatten(ss) == IF ss = << >> THEN << >> ELSE Head(ss) \o Flatten(Tail(ss))

\* beginPath, moveTo, lineTo, stroke
Line(c, t, highlighted) ==
    [op |-> "line", from |-> c.id, to |-> t.id,
     x1 |-> c.properties.x, y1 |-> c.properties.y,
     x2 |-> t.properties.x, y2 |-> t.properties.y, highlighted |-> highlighted]

\* beginPath, arc, fill, stroke
Circle(c, highlighted) ==
    [op |-> "circle", of |-> c.id, x |-> c.properties.x, y |-> c.properties.y,
     radius |-> OrElse(c.properties, "width", 40), highlighted |-> highlighted]

\* fillText
Text(c, x, y) == [op |-> "text", of |-> c.id, x |-> x, y |-> y, text |-> LabelText(c)]

\* drawArrow: the line and its arrowhead
Arrow(c, t, highlighted) ==
    [op |-> "arrow", from |-> c.id, to |-> t.id,
     x1 |-> OrElse(c.properties, "x", 0), y1 |-> OrElse(c.properties, "y", 0),
     x2 |-> OrElse(t.properties, "x", 0), y2 |-> OrElse(t.properties, "y", 0),
     highlighted |-> highlighted]

\* fillRect, strokeRect around (x, y)
Box(c, highlighted) ==
    [op |-> "box", of |-> c.id,
     x |-> OrElse(c.properties, "x", 0), y |-> OrElse(c.properties, "y", 0),
     width |-> OrElse(c.properties, "width", 120),
     height |-> OrElse(c.properties, "height", 60), highlighted |-> highlighted]

\* renderTree draws a component, and edges from and to it, only if it is a
\* node with truthy coordinates
IsPlacedNode(c) ==
    c.type = "node" /\ Truthy(c.properties, "x") /\ Truthy(c.properties, "y")

\* renderTree, first loop, one component: its edges
TreeEdges(data, c) ==
    LET cs == data.components
        Reaches(targetId) ==
            LET k == FindComponent(cs, targetId) IN
            IF k = 0 THEN FALSE ELSE IsPlacedNode(cs[k])
        targets == SelectSeq(c.connections, Reaches)
    IN  IF ~IsPlacedNode(c) THEN << >>
        ELSE [j \in 1..Len(targets) |->
                Line(c, cs[FindComponent(cs, targets[j])],
                     c.id \in data.highlight \/ targets[j] \in data.highlight)]

\* renderTree, second loop, one component: its circle and label
TreeNode(data, c) ==
    IF ~IsPlacedNode(c) THEN << >>
    ELSE <<Circle(c, c.id \in data.highlight)>>
         \o (IF LabelText(c) # "" THEN <<Text(c, c.properties.x, c.properties.y)>> ELSE << >>)

\* renderTree
RenderTree(data) ==
    LET cs == data.components IN
    Flatten([i \in 1..Len(cs) |-> TreeEdges(data, cs[i])])
    \o Flatten([i \in 1..Len(cs) |-> TreeNode(data, cs[i])])

\* renderFlowchart, first loop, one component: its arrows
FlowArrows(data, c) ==
    LET cs == data.components
        Found(targetId) == FindComponent(cs, targetId) # 0
        targets == SelectSeq(c.connections, Found)
    IN  [j \in 1..Len(targets) |->
            Arrow(c, cs[FindComponent(cs, targets[j])], c.id \in data.highlight)]

\* renderFlowchart, second loop, one component: its box and label (a label
\* of at most three words that fits the box is one fillText at (x, y))
FlowBox(data, c) ==
    <<Box(c, c.id \in data.highlight)>>
    \o (IF LabelText(c) # ""
        THEN <<Text(c, OrElse(c.properties, "x", 0), OrElse(c.properties, "y", 0))>>
        ELSE << >>)

RenderFlowchart_BoxesFirst(data) ==
    LET cs == data.components IN
    Flatten([i \in 1..Len(cs) |-> FlowBox(data, cs[i])])
    \o Flatten([i \in 1..Len(cs) |-> FlowArrows(data, cs[i])])

\* renderFlowchart
RenderFlowchart(data) ==
    LET cs == data.components IN
    Flatten([i \in 1..Len(cs) |-> FlowArrows(data, cs[i])])
    \o Flatten([i \in 1..Len(cs) |-> FlowBox(data, cs[i])])

RenderGraph_AsFlowchart(data) == RenderFlowchart(data)

\* renderGraph
RenderGraph(data) == RenderTree(data)

\* renderProcess
RenderProcess(data) == RenderFlowchart(data)

\* renderGeneric
RenderGeneric(data) == RenderFlowchart(data)

\* the switch on data.visualization_type
Dispatch(data) ==
    CASE data.vtype = "tree" -> RenderTree(data)
      [] data.vtype = "graph" -> RenderGraph(data)
      [] data.vtype = "flowchart" -> RenderFlowchart(data)
      [] data.vtype \in {"animation", "process", "timeline"} -> RenderProcess(data)
      [] OTHER -> RenderGeneric(data)

\* the render effect: clearRect, save, scale(zoom, zoom), the renderer, restore
RenderEffect(data, zoom) ==
    <<[op |-> "clearRect"], [op |-> "scale", zoom10 |-> zoom]>>
    \o Dispatch(data)
    \o <<[op |-> "restore"]>>

\* the canvas of a viewer whose document has no components, before its
\* render effect ran
NoData == [vtype |-> "flowchart", components |-> << >>, highlight |-> {}]
NoCanvas == canvas = NoData /\ drawn = << >>

(***************************************************************************)
(*                        InteractiveTreeViewer                            *)
(***************************************************************************)
EmptyMap == [k \in {} |-> Null]

\* ns with the entry of key k set to v (newNodes[k] = v on a copied map)
Put(ns, k, v) == [j \in (DOMAIN ns) \cup {k} |-> IF j = k THEN v ELSE ns[j]]

NewNode(newId, value, x, y) ==
    [id |-> newId, value |-> value, x |-> x, y |-> y,
     left |-> Null, right |-> Null, state |-> "normal"]

\* The while (true) loop of insertNode: walk from currentId to the node with
\* the empty child slot the value belongs in.  ok = FALSE when
\* newNodes[currentId] is undefined (current.value throws a TypeError) or
\* when the walk runs in a cycle of child pointers (hang: the loop never
\* ends; a walk deeper than the map has nodes has met a node twice).
RECURSIVE Walk(_, _, _, _)
Walk(ns, currentId, depth, value) ==
    IF currentId \notin DOMAIN ns
    THEN [ok |-> FALSE, hang |-> FALSE]
    ELSE IF depth > Cardinality(DOMAIN ns)
    THEN [ok |-> FALSE, hang |-> TRUE]
    ELSE LET current == ns[currentId] IN
         IF value < current.value
         THEN IF current.left = Null
              THEN [ok |-> TRUE, parent |-> currentId, side |-> "left", depth |-> depth]
              ELSE Walk(ns, current.left, depth + 1, value)
         ELSE IF current.right = Null
              THEN [ok |-> TRUE, parent |-> currentId, side |-> "right", depth |-> depth]
              ELSE Walk(ns, current.right, depth + 1, value)

\* current.left = newId / current.right = newId: a write into the object of
\* id p held by the map ns
SetChild(ns, p, side, newId) ==
    IF side = "left" THEN [ns EXCEPT ![p].left = newId]
                     ELSE [ns EXCEPT ![p].right = newId]

\* The node insertNode attaches below parent p at the given depth
ChildNode(p, side, depth, newId, value) ==
    NewNode(newId, value,
            IF side = "left" THEN p.x - (150 * XScale) \div depth
                             ELSE p.x + (150 * XScale) \div depth,
            p.y + 100)

\* The model follows at most MaxDisturb tree edits during one traversal
CanDisturb == IF trav = NoTrav THEN TRUE ELSE trav.disturbed < MaxDisturb

\* Date.now() at an insertion: time does not go back, two reads may fall in
\* the same millisecond unless a timed wait ended in between.
Nows == {t \in 1..MaxClock : (t = clock /\ ~elapsed) \/ t = clock + 1}

\* insertNode(value) with newId = `node-${now}` on the closure's map ns and
\* root: the map and root passed to setNodes / setRootId, and the object
\* written in place (wrote, Null when none).  ok = FALSE: the walk threw
\* or, with hang, never ended.
InsertInto(ns, root, value, now) ==
    IF root = Null
    THEN [ok |-> TRUE, hang |-> FALSE, wrote |-> Null, side |-> "none", rootId |-> now,
          nodes |-> Put(EmptyMap, now, NewNode(now, value, 500 * XScale, 100))]
    ELSE LET w == Walk(ns, root, 1, value) IN
         IF ~w.ok
         THEN [ok |-> FALSE, hang |-> w.hang, wrote |-> Null, side |-> "none",
               rootId |-> root, nodes |-> ns]
         ELSE [ok |-> TRUE, hang |-> FALSE, wrote |-> w.parent, side |-> w.side, rootId |-> root,
               nodes |-> Put(SetChild(ns, w.parent, w.side, now), now,
                             ChildNode(ns[w.parent], w.side, w.depth, now, value))]

\* What an insertNode call does to the objects an in-flight traversal holds
DisturbedBy(t, ins, now) ==
    IF t = NoTrav THEN t
    ELSE [t EXCEPT
            !.snap = IF ins.wrote \in t.shared
                     THEN SetChild(@, ins.wrote, ins.side, now) ELSE @,
            !.shared = IF ~ins.ok THEN @ ELSE IF ins.wrote = Null THEN {} ELSE @ \ {now},
            !.disturbed = @ + 1]

\* insertNode(value) called from handleInsert
InsertNode(value, now) ==
    LET ins == InsertInto(nodes, rootId, value, now) IN
    /\ Mounted
    /\ Len(inserted) < MaxInserts
    /\ CanDisturb
    /\ clock' = now
    /\ elapsed' = FALSE
    /\ lastOp' = "insert"
    /\ nodes' = ins.nodes
    /\ rootId' = ins.rootId
    /\ inserted' = IF ins.ok THEN Append(inserted, value) ELSE inserted
    /\ trav' = DisturbedBy(trav, ins, now)
    /\ lastEnd' = NoEnd
    /\ page' = IF ins.hang THEN "hung" ELSE page
    /\ inputValue' = IF ins.ok THEN << >> ELSE inputValue
    /\ UNCHANGED <<traversalOrder, isTraversing, selectedTraversal, playVars, canvasVars, repeat, before>>

\* a JavaScript number as parseInt returns it: NaN or an integer
NaN == [nan |-> TRUE]
Num(n) == [nan |-> FALSE, n |-> n]
IsNaN(v) == v.nan

Digits10 == <<"0", "1", "2", "3", "4", "5", "6", "7", "8", "9">>
DigitChars == {Digits10[i] : i \in 1..10}
DigitOf(c) == (CHOOSE i \in 1..10 : Digits10[i] = c) - 1

\* the longest run of digits of text from position i on, read in base 10
\* after the digits acc already read
RECURSIVE ReadDigits(_, _, _)
ReadDigits(text, i, acc) ==
    IF i > Len(text) \/ text[i] \notin DigitChars
    THEN [n |-> acc, next |-> i]
    ELSE ReadDigits(text, i + 1, acc * 10 + DigitOf(text[i]))

ParseInt_EmptyIsZero(text) ==
    LET signed == Len(text) > 0 /\ text[1] \in {"-", "+"}
        first == IF signed THEN 2 ELSE 1
        d == ReadDigits(text, first, 0)
    IN  IF signed /\ text[1] = "-" THEN Num(0 - d.n) ELSE Num(d.n)

\* parseInt(text): an optional sign and the digits that follow it; NaN when
\* no digit follows; whatever comes after the digits is ignored
ParseInt(text) ==
    LET signed == Len(text) > 0 /\ text[1] \in {"-", "+"}
        first == IF signed THEN 2 ELSE 1
        d == ReadDigits(text, first, 0)
    IN  IF d.next = first THEN NaN
        ELSE IF signed /\ text[1] = "-" THEN Num(0 - d.n) ELSE Num(d.n)

\* The values an <input type="number"> reports: the empty string (also for
\* text that is no valid number) or a valid floating-point number.
InputTexts ==
    {<< >>, <<"1">>, <<"2", ".", "5">>, <<".", "5">>}

\* onChange of the value field
TypeInput ==
    \E text \in InputTexts :
        /\ Mounted
        /\ inputValue' = text
        /\ lastOp' = "type"
        /\ UNCHANGED <<nodes, rootId, traversalOrder, isTraversing, selectedTraversal,
                       clock, elapsed, trav, inserted, playVars, canvasVars, lastEnd, repeat, before, page>>

\* handleInsert (Enter in the value field, or the Insert button)
HandleInsertText ==
    LET value == ParseInt(inputValue) IN
    IF IsNaN(value)
    THEN /\ Mounted
         /\ lastOp' = "insert_rejected"
         /\ UNCHANGED <<treeVars, playVars, canvasVars, lastEnd, repeat, before, page>>
    ELSE \E now \in Nows : InsertNode(value.n, now)

\* handleInsert with an input that parses to a number
HandleInsert == \E value \in Values, now \in Nows : InsertNode(value, now)

\* handleInsert at least 1 ms after Date.now() was last read
HandleInsertLater ==
    \E value \in Values :
        /\ clock < MaxLater
        /\ InsertNode(value, clock + 1)

ClearTree_KeepsOutput ==
    /\ Mounted
    /\ CanDisturb
    /\ nodes' = EmptyMap
    /\ rootId' = Null
    /\ inserted' = << >>
    /\ trav' = IF trav = NoTrav THEN trav
               ELSE [trav EXCEPT !.shared = {}, !.disturbed = @ + 1]
    /\ lastOp' = "clear"
    /\ lastEnd' = NoEnd
    /\ UNCHANGED <<traversalOrder, isTraversing, selectedTraversal, clock, elapsed,
                   inputValue, playVars, canvasVars, repeat, before, page>>

\* clearTree
ClearTree ==
    /\ Mounted
    /\ CanDisturb
    /\ nodes' = EmptyMap
    /\ rootId' = Null
    /\ traversalOrder' = << >>
    /\ inserted' = << >>
    /\ trav' = IF trav = NoTrav THEN trav
               ELSE [trav EXCEPT !.shared = {}, !.disturbed = @ + 1]
    /\ lastOp' = "clear"
    /\ lastEnd' = NoEnd
    /\ UNCHANGED <<isTraversing, selectedTraversal, clock, elapsed, inputValue,
                   playVars, canvasVars, repeat, before, page>>

\* node.left / node.right read from a node object; undefined reads as absent
Ptr(node, side) == IF side \in DOMAIN node THEN node[side] ELSE Null

\* the edges of the <svg>: nodes[node.left].x / nodes[node.right].x throws a
\* TypeError for a child pointer the map has no entry for
EdgesThrow(ns) ==
    \E k \in DOMAIN ns : \E side \in {"left", "right"} :
        Ptr(ns[k], side) # Null /\ Ptr(ns[k], side) \notin DOMAIN ns

\* calculateHeight(nodeId) throws: a TypeError at a pointer the map has no
\* entry for, a RangeError when the pointers run in a cycle
RECURSIVE HeightThrows(_, _, _)
HeightThrows(ns, nodeId, fuel) ==
    IF nodeId = Null THEN FALSE
    ELSE IF nodeId \notin DOMAIN ns \/ fuel = 0 THEN TRUE
    ELSE \/ HeightThrows(ns, Ptr(ns[nodeId], "left"), fuel - 1)
         \/ HeightThrows(ns, Ptr(ns[nodeId], "right"), fuel - 1)

\* the render of the committed state (ns, root) throws; with no error
\* boundary React then unmounts the application
RenderThrows(ns, root) ==
    HeightThrows(ns, root, Cardinality(DOMAIN ns)) \/ EdgesThrow(ns)

\* the values of loadExample1 and loadExample2
Example1 == <<45, 25, 65, 15, 35, 55, 75, 10, 30>>
Example2 == <<50, 30, 70, 20, 40, 60, 80>>
Presets == {Example1, Example2}

\* Date.now() at the i-th insertNode call of a forEach loop that starts in
\* millisecond t0 and sees the next millisecond begin after `tick` calls
NowAt(t0, tick, i) == IF i <= tick THEN t0 ELSE t0 + 1

\* values.forEach(val => insertNode(val)) from call i on.  Every call runs in
\* the closure of the render the handler was started from: it copies that
\* render's map (whose objects the earlier calls wrote into in place, objs),
\* walks from that render's root and passes its own copy to setNodes (last).
\* snap and shared are the objects an in-flight traversal holds; calls counts
\* the calls started, done those that returned, end is how the loop ended.
RECURSIVE ForEachInsert(_, _, _, _, _, _)
ForEachInsert(st, root, values, i, t0, tick) ==
    IF i > Len(values) THEN st
    ELSE LET now == NowAt(t0, tick, i) IN
         IF root = Null
         THEN ForEachInsert([st EXCEPT !.calls = i, !.done = i, !.rootId = now,
                                !.last = InsertInto(st.objs, root, values[i], now).nodes],
                            root, values, i + 1, t0, tick)
         ELSE LET w == Walk(st.objs, root, 1, values[i]) IN
              IF ~w.ok
              THEN [st EXCEPT !.calls = i, !.end = IF w.hang THEN "hung" ELSE "threw"]
              ELSE LET objs == SetChild(st.objs, w.parent, w.side, now) IN
                   ForEachInsert(
                       [st EXCEPT !.calls = i, !.done = i, !.objs = objs,
                           !.snap = IF w.parent \in st.shared
                                    THEN SetChild(@, w.parent, w.side, now) ELSE @,
                           !.last = Put(objs, now, ChildNode(st.objs[w.parent], w.side,
                                                             w.depth, now, values[i]))],
                       root, values, i + 1, t0, tick)

\* loadExample1 / loadExample2: clearTree(), then the forEach loop.  The
\* setNodes and setRootId calls are absolute, the last one of each wins:
\* clearTree's when no later call is made.
LoadExample(values, t0, tick) ==
    LET st == ForEachInsert(
                  [objs |-> nodes, last |-> EmptyMap, rootId |-> Null,
                   snap |-> IF trav = NoTrav THEN EmptyMap ELSE trav.snap,
                   shared |-> IF trav = NoTrav THEN {} ELSE trav.shared,
                   calls |-> 0, done |-> 0, end |-> "returned"],
                  rootId, values, 1, t0, tick)
        now == NowAt(t0, tick, st.calls)
    IN  /\ Mounted
        /\ CanDisturb
        /\ tick < Len(values) => t0 < MaxClock
        /\ lastOp' = IF values \in Presets THEN "load" ELSE "load_random"
        /\ lastEnd' = NoEnd
        /\ clock' = now
        /\ elapsed' = FALSE
        /\ IF st.end = "hung"
           THEN /\ page' = "hung"
                /\ trav' = IF trav = NoTrav THEN trav ELSE [trav EXCEPT !.snap = st.snap]
                /\ UNCHANGED <<nodes, rootId, traversalOrder, inserted>>
           ELSE /\ nodes' = st.last
                /\ rootId' = st.rootId
                /\ traversalOrder' = << >>
                /\ inserted' = SubSeq(values, 1, st.done)
                /\ trav' = IF trav = NoTrav THEN trav
                           ELSE [trav EXCEPT
                                   !.snap = st.snap,
                                   !.shared = IF rootId = Null \/ st.done = 0
                                              THEN {} ELSE @ \ {now},
                                   !.disturbed = @ + 1]
                /\ page' = IF RenderThrows(st.last, st.rootId) THEN "crashed" ELSE page
        /\ inputValue' = IF st.end # "hung" /\ st.done > 0 THEN << >> ELSE inputValue
        /\ UNCHANGED <<isTraversing, selectedTraversal, playVars, canvasVars, repeat, before>>

\* a click on "Example 1" or "Example 2"
HandleLoad ==
    \E values \in Presets, t0 \in Nows :
        \E tick \in 0..Len(values) : LoadExample(values, t0, tick)

\* loadRandom draws 7 to 12 values from 0..99; the model follows draws of the
\* smallest count whose values are the least, a small and the greatest one,
\* the last value drawn apart from the others
RandomCount == 7
RandomValues == {0, 2, 99}
RandomDraws ==
    {[i \in 1..RandomCount |-> IF i < RandomCount THEN a ELSE b] :
        a \in RandomValues, b \in RandomValues}

\* a click on "Random": loadRandom
HandleLoadRandom ==
    \E values \in RandomDraws, t0 \in Nows :
        \E tick \in 0..Len(values) : LoadExample(values, t0, tick)

ResetNodeStates_Keeps(ns) == ns

\* resetNodeStates: every object of the map gets state "normal" (in place)
ResetNodeStates(ns) == [k \in DOMAIN ns |-> [ns[k] EXCEPT !.state = "normal"]]

UpdateNodeState_ShowsNoVisited(ns, nodeId, state) ==
    IF state = "visited" THEN ns
    ELSE IF nodeId \in DOMAIN ns
    THEN [ns EXCEPT ![nodeId].state = state]
    ELSE Put(ns, nodeId, [state |-> state])

\* updateNodeState: setNodes(prev => ({...prev, [nodeId]: {...prev[nodeId], state}}))
UpdateNodeState(ns, nodeId, state) ==
    IF nodeId \in DOMAIN ns
    THEN [ns EXCEPT ![nodeId].state = state]
    ELSE Put(ns, nodeId, [state |-> state])

(***************************************************************************)
(* The recursive async traversals.  A call that awaits the traversal of a  *)
(* child is a frame [id, at] of trav.stack, at naming the child awaited.   *)
(* Enter runs a call from its first line, Return resumes the caller of a   *)
(* call that returned; both run on to the next sleep(600) and give         *)
(*   [status |-> "visit", stack, cur]  updateNodeState(cur, "visiting") was*)
(*                                      reached, sleep(600) comes next;    *)
(*   [status |-> "done"]               the outermost call returned;        *)
(*   [status |-> "throw"]              a TypeError (a node the closure's   *)
(*                                      map does not hold) or a RangeError *)
(*                                      (unbounded recursion).             *)
(* fuel bounds the nesting of calls: a chain of calls longer than the map  *)
(* has nodes repeats an id and never ends.                                 *)
(***************************************************************************)
Frame(id, at) == [id |-> id, at |-> at]
Visit(stack, id) == [status |-> "visit", stack |-> stack, cur |-> id]
Thrown == [status |-> "throw"]
Done == [status |-> "done"]

RECURSIVE Enter(_, _, _, _, _)
RECURSIVE Return(_, _, _, _)

\* inorderTraversal / preorderTraversal / postorderTraversal (nodeId, result)
\* up to its first await on a timer
Enter(kind, snap, stack, nodeId, fuel) ==
    IF fuel = 0 THEN Thrown
    ELSE IF kind = "preorder"
    THEN Visit(stack, nodeId)
    ELSE IF nodeId \notin DOMAIN snap THEN Thrown
    ELSE LET node == snap[nodeId] IN
         IF node.left # Null
         THEN Enter(kind, snap, <<Frame(nodeId, "left")>> \o stack, node.left, fuel - 1)
         ELSE IF kind = "postorder" /\ node.right # Null
         THEN Enter(kind, snap, <<Frame(nodeId, "right")>> \o stack, node.right, fuel - 1)
         ELSE Visit(stack, nodeId)

\* the rest of a call after the awaited traversal of a child returned
Return(kind, snap, stack, fuel) ==
    IF stack = << >> THEN Done
    ELSE LET f == Head(stack)
             rest == Tail(stack)
             node == snap[f.id]
         IN  IF f.at = "left"
             THEN IF kind = "inorder" THEN Visit(rest, f.id)
                  ELSE IF node.right # Null
                  THEN Enter(kind, snap, <<Frame(f.id, "right")>> \o rest, node.right, fuel)
                  ELSE IF kind = "postorder" THEN Visit(rest, f.id)
                  ELSE Return(kind, snap, rest, fuel)
             ELSE IF kind = "postorder" THEN Visit(rest, f.id)
                  ELSE Return(kind, snap, rest, fuel)

\* the rest of a call after its own visit (after sleep(400))
AfterVisit(kind, snap, stack, cur, fuel) ==
    LET node == snap[cur] IN
    IF kind = "inorder"
    THEN IF node.right # Null
         THEN Enter(kind, snap, <<Frame(cur, "right")>> \o stack, node.right, fuel)
         ELSE Return(kind, snap, stack, fuel)
    ELSE IF kind = "preorder"
    THEN IF node.left # Null
         THEN Enter(kind, snap, <<Frame(cur, "left")>> \o stack, node.left, fuel)
         ELSE IF node.right # Null
         THEN Enter(kind, snap, <<Frame(cur, "right")>> \o stack, node.right, fuel)
         ELSE Return(kind, snap, stack, fuel)
    ELSE Return(kind, snap, stack, fuel)

Fuel(snap) == Cardinality(DOMAIN snap) + 1

Running(kind, snap, shared, stack, cur, pc, result, disturbed) ==
    [kind |-> kind, snap |-> snap, shared |-> shared, stack |-> stack,
     cur |-> cur, pc |-> pc, result |-> result, disturbed |-> disturbed]

\* The traversal reached updateNodeState(r.cur, "visiting") and sleeps 600 ms
Visiting(t, r) ==
    /\ nodes' = UpdateNodeState(nodes, r.cur, "visiting")
    /\ trav' = Running(t.kind, t.snap, t.shared \ {r.cur}, r.stack, r.cur,
                       "sleep600", t.result, t.disturbed)
    /\ isTraversing' = TRUE
    /\ lastEnd' = NoEnd

\* The traversal returned or threw: the finally block of performTraversal
Finished(kind, outcome, disturbed) ==
    /\ trav' = NoTrav
    /\ isTraversing' = FALSE
    /\ lastEnd' = [outcome |-> outcome, kind |-> kind, disturbed |-> disturbed]

\* What follows a synchronous run r of the recursive traversal t
Continue(t, r) ==
    IF r.status = "visit" THEN Visiting(t, r)
    ELSE Finished(t.kind, r.status, t.disturbed) /\ nodes' = nodes

\* levelorderTraversal from the end of sleep(400): mark and enqueue the
\* children, then dequeue the next node and sleep 600 ms.
LevelNext(t) ==
    LET node == t.snap[t.cur]
        kids == (IF node.left # Null THEN <<node.left>> ELSE << >>)
                \o (IF node.right # Null THEN <<node.right>> ELSE << >>)
        queue == t.stack \o kids
        marked == IF Len(kids) = 0 THEN nodes
                  ELSE IF Len(kids) = 1 THEN UpdateNodeState(nodes, kids[1], "visiting")
                  ELSE UpdateNodeState(UpdateNodeState(nodes, kids[1], "visiting"),
                                       kids[2], "visiting")
    IN  /\ nodes' = marked
        /\ IF queue = << >>
           THEN Finished(t.kind, "done", t.disturbed)
           ELSE /\ trav' = Running(t.kind, t.snap, t.shared \ {kids[i] : i \in 1..Len(kids)},
                                   Tail(queue), Head(queue), "sleep600", t.result, t.disturbed)
                /\ isTraversing' = TRUE
                /\ lastEnd' = NoEnd

Rejected_IgnoresRunning == rootId = Null

\* the reentrancy guard of performTraversal: if (isTraversing || !rootId) return
Rejected == isTraversing \/ rootId = Null

\* performTraversal(type), up to its first pending timer
PerformTraversal(type) ==
    /\ Mounted
    /\ lastOp' = "traverse"
    /\ IF Rejected
       THEN /\ UNCHANGED <<nodes, traversalOrder, isTraversing, selectedTraversal, trav>>
            /\ lastEnd' = NoEnd
       ELSE LET reset == ResetNodeStates(nodes) IN
                /\ selectedTraversal' = type
                /\ traversalOrder' = << >>
                /\ IF type = "levelorder"
                   THEN /\ nodes' = UpdateNodeState(reset, rootId, "visiting")
                        /\ trav' = Running(type, reset, (DOMAIN reset) \ {rootId},
                                           << >>, rootId, "sleep600", << >>, 0)
                        /\ isTraversing' = TRUE
                        /\ lastEnd' = NoEnd
                   ELSE LET r == Enter(type, reset, << >>, rootId, Fuel(reset)) IN
                        IF r.status = "visit"
                        THEN /\ nodes' = UpdateNodeState(reset, r.cur, "visiting")
                             /\ trav' = Running(type, reset, (DOMAIN reset) \ {r.cur},
                                                r.stack, r.cur, "sleep600", << >>, 0)
                             /\ isTraversing' = TRUE
                             /\ lastEnd' = NoEnd
                        ELSE /\ nodes' = reset
                             /\ Finished(type, r.status, 0)
    /\ UNCHANGED <<rootId, clock, elapsed, inserted, inputValue, playVars, canvasVars, repeat, before, page>>

\* sleep(600) of a visit ends: publish the value, mark the node visited
Timer600 ==
    /\ Mounted
    /\ trav # NoTrav /\ trav.pc = "sleep600"
    /\ Len(trav.result) < MaxVisits
    /\ lastOp' = "timer600"
    /\ elapsed' = TRUE
    /\ IF trav.cur \notin DOMAIN trav.snap
       THEN /\ Finished(trav.kind, "throw", trav.disturbed)
            /\ UNCHANGED <<nodes, traversalOrder>>
       ELSE LET result == Append(trav.result, trav.snap[trav.cur].value) IN
            /\ traversalOrder' = result
            /\ nodes' = UpdateNodeState(nodes, trav.cur, "visited")
            /\ trav' = [trav EXCEPT !.result = result, !.pc = "sleep400",
                                    !.shared = @ \ {trav.cur}]
            /\ isTraversing' = isTraversing
            /\ lastEnd' = NoEnd
    /\ UNCHANGED <<rootId, selectedTraversal, clock, inserted, inputValue,
                   playVars, canvasVars, repeat, before, page>>

\* sleep(400) of a visit ends: the traversal runs on to its next visit or to its end
Timer400 ==
    /\ Mounted
    /\ trav # NoTrav /\ trav.pc = "sleep400"
    /\ lastOp' = "timer400"
    /\ elapsed' = TRUE
    /\ IF trav.kind = "levelorder"
       THEN LevelNext(trav)
       ELSE Continue(trav, AfterVisit(trav.kind, trav.snap, trav.stack, trav.cur,
                                      Fuel(trav.snap)))
    /\ UNCHANGED <<rootId, traversalOrder, selectedTraversal, clock, inserted, inputValue,
                   playVars, canvasVars, repeat, before, page>>

\* sq without the later occurrences of its elements
RECURSIVE Dedupe(_)
Dedupe(sq) ==
    IF sq = << >> THEN sq
    ELSE LET first == Head(sq)
             Other(x) == x # first
         IN  <<first>> \o Dedupe(SelectSeq(Tail(sq), Other))

\* What the model keeps of the continuation of a traversal past its
\* MaxVisits-th visit, which is what decides whether it ends.  Of a queue
\* that holds an id twice the second entry is dropped (it repeats the work of
\* the first).  Of a call stack with more frames than the map has child
\* pointers the outermost frames are dropped: such a stack holds a frame
\* twice, the calls run in a cycle of pointers and never return to them.
Kept(kind, snap, stack) ==
    IF kind = "levelorder" THEN Dedupe(stack)
    ELSE LET most == 2 * Cardinality(DOMAIN snap) + 1 IN
         IF Len(stack) > most THEN SubSeq(stack, 1, most) ELSE stack

\* sleep(600) of a visit past the MaxVisits-th ends: the same callback, with
\* the output sequence kept at its first MaxVisits values
Timer600Over ==
    /\ Mounted
    /\ trav # NoTrav /\ trav.pc = "sleep600"
    /\ Len(trav.result) >= MaxVisits
    /\ lastOp' = "timer600"
    /\ elapsed' = TRUE
    /\ IF trav.cur \notin DOMAIN trav.snap
       THEN /\ Finished(trav.kind, "throw", trav.disturbed)
            /\ UNCHANGED <<nodes, traversalOrder>>
       ELSE /\ traversalOrder' = trav.result
            /\ nodes' = UpdateNodeState(nodes, trav.cur, "visited")
            /\ trav' = [trav EXCEPT !.pc = "sleep400", !.shared = @ \ {trav.cur},
                                    !.stack = Kept(trav.kind, trav.snap, @)]
            /\ isTraversing' = isTraversing
            /\ lastEnd' = NoEnd
    /\ UNCHANGED <<rootId, selectedTraversal, clock, inserted, inputValue,
                   playVars, canvasVars, repeat, before, page>>

InitTreeVars ==
    /\ nodes = EmptyMap
    /\ rootId = Null
    /\ traversalOrder = << >>
    /\ isTraversing = FALSE
    /\ selectedTraversal = "inorder"
    /\ clock = 0
    /\ elapsed = FALSE
    /\ trav = NoTrav
    /\ inserted = << >>
    /\ inputValue = << >>

InitPlayVars ==
    /\ steps = << >>
    /\ isTree = FALSE
    /\ currentStep = 0
    /\ isPlaying = FALSE
    /\ speed2 = 2
    /\ zoom10 = 10
    /\ traversalMode = "inorder"
    /\ timer = NoTimer

InitTree ==
    /\ InitTreeVars /\ InitPlayVars
    /\ lastOp = "init" /\ lastEnd = NoEnd /\ repeat = 0 /\ before = NoBefore /\ page = "ok"
    /\ NoCanvas

NextTree ==
    \/ HandleInsert
    \/ ClearTree
    \/ \E type \in Kinds : PerformTraversal(type)
    \/ Timer600
    \/ Timer400

SpecTree == InitTree /\ [][NextTree]_vars

\* the tree viewer with its "Quick Examples" buttons
NextLoad ==
    \/ HandleInsert
    \/ ClearTree
    \/ HandleLoad
    \/ HandleLoadRandom
    \/ \E type \in Kinds : PerformTraversal(type)
    \/ Timer600
    \/ Timer400

SpecLoad == InitTree /\ [][NextLoad]_vars

\* the tree viewer with its value field
NextInput ==
    \/ TypeInput
    \/ HandleInsertText
    \/ ClearTree
    \/ \E type \in Kinds : PerformTraversal(type)
    \/ Timer600
    \/ Timer400

SpecInput == InitTree /\ [][NextInput]_vars

\* the tree viewer with up to MaxLater node ids
NextLevel ==
    \/ HandleInsert
    \/ HandleInsertLater
    \/ ClearTree
    \/ \E type \in Kinds : PerformTraversal(type)
    \/ Timer600
    \/ Timer400

SpecLevel == InitTree /\ [][NextLevel]_vars

\* The tree viewer with traversals of any length.  A timer that is set
\* fires: the callbacks of setTimeout are run by the event loop, while
\* nothing obliges the user to click.
NextLive ==
    \/ HandleInsert
    \/ ClearTree
    \/ \E type \in Kinds : PerformTraversal(type)
    \/ Timer600
    \/ Timer600Over
    \/ Timer400

SpecLive ==
    /\ InitTree /\ [][NextLive]_vars
    /\ WF_vars(Timer600) /\ WF_vars(Timer600Over) /\ WF_vars(Timer400)

(***************************************************************************)
(*                          VisualizationViewer                            *)
(***************************************************************************)
\* A step of data.steps is reduced to its duration (seconds); has = FALSE is
\* a step whose duration is missing (undefined).
Step(d) == [has |-> TRUE, duration |-> d]
MissingDuration == [has |-> FALSE, duration |-> 0]
Durations == {Step(-1), Step(0), Step(2), MissingDuration}

RECURSIVE SeqsUpTo(_, _)
SeqsUpTo(S, n) ==
    IF n = 0 THEN {<< >>}
    ELSE LET shorter == SeqsUpTo(S, n - 1) IN
         shorter \cup {Append(sq, x) : sq \in {q \in shorter : Len(q) = n - 1}, x \in S}

Docs == SeqsUpTo(Durations, MaxSteps)

\* the <option> values of the speed <select>: 0.5, 1, 1.5, 2
Speeds == {1, 2, 3, 4}

totalSteps == Len(steps)
hasSteps == totalSteps > 0

\* (currentStepData.duration / speed) * 1000: a number of milliseconds
\* (rounded down to a whole one), or NaN when the duration is undefined
DurationMs(step, sp2) ==
    IF step.has THEN [nan |-> FALSE, ms |-> (step.duration * 2000) \div sp2]
                ELSE [nan |-> TRUE, ms |-> 0]

\* the time setTimeout(callback, delay) waits: NaN and negative delays are 0
TimeoutWait(delay) == IF delay.nan \/ delay.ms < 0 THEN 0 ELSE delay.ms

\* The body of the auto-play useEffect in a render of document doc: the
\* timer it sets.  The callback closes over step and the document.
SetTimer(playing, step, sp2, doc) ==
    IF ~playing \/ Len(doc) = 0
    THEN NoTimer
    ELSE [pending |-> TRUE, step |-> step, doc |-> doc,
          wait |-> TimeoutWait(DurationMs(doc[step + 1], sp2))]

\* The auto-play useEffect after a render with state (playing, step, sp2).
\* It runs only when a dependency changed: its cleanup clears the pending
\* timer, then a new timer is set if playing.  The callback closes over step.
AutoPlayEffect(playing, step, sp2, pending) ==
    IF <<playing, step, sp2>> = <<isPlaying, currentStep, speed2>>
    THEN pending
    ELSE SetTimer(playing, step, sp2, steps)

\* a task set the state to (playing, step, sp2) while the timer `pending` was
\* waiting; React renders and runs the effect
Render(playing, step, sp2, pending) ==
    /\ isPlaying' = playing
    /\ currentStep' = step
    /\ speed2' = sp2
    /\ timer' = AutoPlayEffect(playing, step, sp2, pending)

\* the render after an event handler
Commit(playing, step, sp2) == Render(playing, step, sp2, timer)

\* history: how many times in a row the last operation was called
Called(op) ==
    /\ lastOp' = op
    /\ repeat' = IF lastOp = op THEN (IF repeat < MaxRepeat THEN repeat + 1 ELSE repeat) ELSE 1
    /\ lastEnd' = lastEnd
    /\ before' = [step |-> currentStep, playing |-> isPlaying, pending |-> timer.pending]

RestartsAtEnd_Never == FALSE

\* if (currentStep >= totalSteps - 1 && !isPlaying) setCurrentStep(0)
RestartsAtEnd == currentStep >= totalSteps - 1 /\ ~isPlaying

PlayIgnored_Never == FALSE

\* the first line of handlePlayPause: if (!hasSteps) return
PlayIgnored == ~hasSteps

Toggled_AlwaysPlays == TRUE

\* the value handlePlayPause sets: setIsPlaying(!isPlaying)
Toggled == ~isPlaying

\* handlePlayPause
HandlePlayPause ==
    /\ Mounted
    /\ Called(IF isPlaying THEN "pause" ELSE "play")
    /\ IF PlayIgnored
       THEN UNCHANGED <<isPlaying, currentStep, speed2, timer>>
       ELSE Commit(Toggled, IF RestartsAtEnd THEN 0 ELSE currentStep, speed2)
    /\ UNCHANGED <<steps, isTree, zoom10, traversalMode, treeVars, canvasVars, page>>

CanStepForward_OffByOne == currentStep < totalSteps

\* if (currentStep < totalSteps - 1)
CanStepForward == currentStep < totalSteps - 1

\* handleStepForward
HandleStepForward ==
    /\ Mounted
    /\ Called("step_forward")
    /\ IF CanStepForward
       THEN Commit(FALSE, currentStep + 1, speed2)
       ELSE UNCHANGED <<isPlaying, currentStep, speed2, timer>>
    /\ UNCHANGED <<steps, isTree, zoom10, traversalMode, treeVars, canvasVars, page>>

\* if (currentStep > 0)
CanStepBackward == currentStep > 0

\* handleStepBackward
HandleStepBackward ==
    /\ Mounted
    /\ Called("step_backward")
    /\ IF CanStepBackward
       THEN Commit(FALSE, currentStep - 1, speed2)
       ELSE UNCHANGED <<isPlaying, currentStep, speed2, timer>>
    /\ UNCHANGED <<steps, isTree, zoom10, traversalMode, treeVars, canvasVars, page>>

ResetStep_Keeps == currentStep

\* the step handleReset sets: setCurrentStep(0)
ResetStep == 0

\* handleReset
HandleReset ==
    /\ Mounted
    /\ Called("reset")
    /\ Commit(FALSE, ResetStep, speed2)
    /\ UNCHANGED <<steps, isTree, zoom10, traversalMode, treeVars, canvasVars, page>>

\* onChange of the speed <select>: setSpeed(Number(e.target.value))
SetSpeed(sp2) ==
    /\ Mounted
    /\ Called("speed")
    /\ Commit(isPlaying, currentStep, sp2)
    /\ UNCHANGED <<steps, isTree, zoom10, traversalMode, treeVars, canvasVars, page>>

ModeEffect_KeepsPlaying(tree, playing, step) ==
    IF tree THEN [playing |-> playing, step |-> 0]
            ELSE [playing |-> playing, step |-> step]

\* the effect on [traversalMode, isTreeVisualization]:
\* if (isTreeVisualization) { setCurrentStep(0); setIsPlaying(false); }
ModeEffect(tree, playing, step) ==
    IF tree THEN [playing |-> FALSE, step |-> 0]
            ELSE [playing |-> playing, step |-> step]

\* onTraversalModeChange of the TreeOptionsPanel (rendered for a tree only)
\* and the effect on [traversalMode, isTreeVisualization] that resets playback
SetTraversalMode(mode) ==
    /\ Mounted
    /\ isTree
    /\ Called("mode")
    /\ traversalMode' = mode
    /\ IF mode # traversalMode
       THEN LET set == ModeEffect(isTree, isPlaying, currentStep) IN
            Commit(set.playing, set.step, speed2)
       ELSE UNCHANGED <<isPlaying, currentStep, speed2, timer>>
    /\ UNCHANGED <<steps, isTree, zoom10, treeVars, canvasVars, page>>

TickAdvances_StopsEarly(step) == step < totalSteps - 2

\* the callback's test: if (currentStep < totalSteps - 1), on its closure's currentStep
TickAdvances(step) == step < totalSteps - 1

Advanced_Stays(prev) == prev

\* setCurrentStep(prev => prev + 1)
Advanced(prev) == prev + 1

\* the auto-play timer fires
Tick ==
    /\ Mounted
    /\ timer.pending
    /\ Called("tick")
    /\ IF TickAdvances(timer.step)
       THEN Render(isPlaying, Advanced(currentStep), speed2, NoTimer)
       ELSE Render(FALSE, currentStep, speed2, NoTimer)
    /\ UNCHANGED <<steps, isTree, zoom10, traversalMode, treeVars, canvasVars, page>>

InitPlay ==
    /\ InitTreeVars
    /\ steps \in Docs
    /\ isTree \in BOOLEAN
    /\ currentStep = 0
    /\ isPlaying = FALSE
    /\ speed2 = 2
    /\ zoom10 = 10
    /\ traversalMode = "inorder"
    /\ timer = NoTimer
    /\ lastOp = "init" /\ lastEnd = NoEnd /\ repeat = 0 /\ before = NoBefore /\ page = "ok"
    /\ NoCanvas

NextPlay ==
    \/ HandlePlayPause
    \/ HandleStepForward
    \/ HandleStepBackward
    \/ HandleReset
    \/ \E sp2 \in Speeds : SetSpeed(sp2)
    \/ \E mode \in Kinds : SetTraversalMode(mode)
    \/ Tick

SpecPlay == InitPlay /\ [][NextPlay]_vars

\* Playback left alone: the controls are used only while playback is idle.
\* A timer that is set fires (the callbacks of setTimeout are run by the
\* event loop), while nothing obliges the user to click.
NextAuto ==
    \/ ~isPlaying /\ HandlePlayPause
    \/ ~isPlaying /\ HandleStepForward
    \/ ~isPlaying /\ HandleStepBackward
    \/ ~isPlaying /\ HandleReset
    \/ ~isPlaying /\ \E sp2 \in Speeds : SetSpeed(sp2)
    \/ Tick

SpecAuto == InitPlay /\ [][NextAuto]_vars /\ WF_vars(Tick)

\* zoom is kept in tenths: the step 0.2 and the limits 0.5 and 3 of
\* handleZoomIn / handleZoomOut (the rounding error of adding 0.2 in binary
\* floating point, below 1e-15, is not kept)
ZoomStep == 2
ZoomMin == 5
ZoomMax == 30

Min(a, b) == IF a < b THEN a ELSE b
Max(a, b) == IF a > b THEN a ELSE b

\* Math.min(prev + 0.2, 3)
ZoomedIn(z) == Min(z + ZoomStep, ZoomMax)

ZoomedOut_Unclamped(z) == z - ZoomStep

\* Math.max(prev - 0.2, 0.5)
ZoomedOut(z) == Max(z - ZoomStep, ZoomMin)

ZoomOnly_StopsPlayback ==
    /\ isPlaying' = FALSE
    /\ timer' = NoTimer
    /\ UNCHANGED <<steps, isTree, currentStep, speed2, traversalMode, treeVars, canvasVars, page>>

\* the zoom handlers call setZoom and nothing else, and zoom is no dependency
\* of the auto-play effect: the render after them leaves the timer alone
ZoomOnly ==
    UNCHANGED <<steps, isTree, currentStep, isPlaying, speed2, traversalMode, timer,
                treeVars, canvasVars, page>>

\* handleZoomIn
HandleZoomIn ==
    /\ Mounted
    /\ Called("zoom_in")
    /\ zoom10' = ZoomedIn(zoom10)
    /\ ZoomOnly

\* handleZoomOut
HandleZoomOut ==
    /\ Mounted
    /\ Called("zoom_out")
    /\ zoom10' = ZoomedOut(zoom10)
    /\ ZoomOnly

EffectDeps_WithoutSteps(playing, step, sp2, doc) ==
    <<playing, step, Len(doc) > 0, Len(doc), sp2>>

\* the dependency list of the auto-play effect in a render of document doc:
\* [isPlaying, currentStep, hasSteps, totalSteps, speed, data.steps]
EffectDeps(playing, step, sp2, doc) ==
    <<playing, step, Len(doc) > 0, Len(doc), sp2, doc>>

\* data.steps[currentStep] is undefined: reading .description in the render
\* of a document that is not a tree, or .duration in the auto-play effect,
\* throws a TypeError
StepMissing(doc, step) == Len(doc) > 0 /\ step >= Len(doc)

\* The parent renders the viewer with another document (the data prop).
\* The component keeps its state.  The render reads the current step's
\* description unless the document is a tree; then the effect on
\* [traversalMode, isTreeVisualization] runs, then the auto-play effect
\* (its cleanup first), both with the state of this render; the state the
\* first one set is rendered after that.
ReplaceDocument(doc, tree) ==
    LET renderThrows == ~tree /\ StepMissing(doc, currentStep)
        effectThrows == isPlaying /\ StepMissing(doc, currentStep)
        resets == tree /\ ~isTree
    IN  /\ Mounted
        /\ doc # steps
        /\ Called("replace")
        /\ steps' = doc
        /\ isTree' = tree
        /\ IF renderThrows \/ effectThrows
           THEN /\ page' = "crashed"
                /\ timer' = NoTimer
                /\ UNCHANGED <<isPlaying, currentStep>>
           ELSE /\ page' = page
                /\ isPlaying' = IF resets THEN FALSE ELSE isPlaying
                /\ currentStep' = IF resets THEN 0 ELSE currentStep
                /\ timer' = IF resets THEN NoTimer
                            ELSE IF EffectDeps(isPlaying, currentStep, speed2, doc)
                                    = EffectDeps(isPlaying, currentStep, speed2, steps)
                            THEN timer
                            ELSE SetTimer(isPlaying, currentStep, speed2, doc)
        /\ UNCHANGED <<speed2, zoom10, traversalMode, treeVars, canvasVars>>

\* the documents the viewer is given when documents are replaced
StepKinds == {Step(1), Step(2)}
NewDocs == SeqsUpTo(StepKinds, MaxSteps)

InitDoc ==
    /\ InitTreeVars
    /\ steps \in NewDocs
    /\ isTree \in BOOLEAN
    /\ currentStep = 0
    /\ isPlaying = FALSE
    /\ speed2 = 2
    /\ zoom10 = 10
    /\ traversalMode = "inorder"
    /\ timer = NoTimer
    /\ lastOp = "init" /\ lastEnd = NoEnd /\ repeat = 0 /\ before = NoBefore /\ page = "ok"
    /\ NoCanvas

NextDoc ==
    \/ HandlePlayPause
    \/ HandleStepForward
    \/ HandleStepBackward
    \/ HandleReset
    \/ \E sp2 \in Speeds : SetSpeed(sp2)
    \/ \E mode \in Kinds : SetTraversalMode(mode)
    \/ Tick
    \/ \E doc \in NewDocs, tree \in BOOLEAN : ReplaceDocument(doc, tree)

SpecDoc == InitDoc /\ [][NextDoc]_vars

\* the documents the viewer with zoom buttons is followed on: every step
\* takes two seconds
ZoomDocs == SeqsUpTo({Step(2)}, MaxSteps)

InitZoom ==
    /\ InitTreeVars
    /\ steps \in ZoomDocs
    /\ isTree \in BOOLEAN
    /\ currentStep = 0
    /\ isPlaying = FALSE
    /\ speed2 = 2
    /\ zoom10 = 10
    /\ traversalMode = "inorder"
    /\ timer = NoTimer
    /\ lastOp = "init" /\ lastEnd = NoEnd /\ repeat = 0 /\ before = NoBefore /\ page = "ok"
    /\ NoCanvas

\* the viewer with its zoom buttons, on one document
NextZoom ==
    \/ HandlePlayPause
    \/ HandleStepForward
    \/ HandleStepBackward
    \/ HandleReset
    \/ \E sp2 \in Speeds : SetSpeed(sp2)
    \/ \E mode \in Kinds : SetTraversalMode(mode)
    \/ Tick
    \/ HandleZoomIn
    \/ HandleZoomOut

SpecZoom == InitZoom /\ [][NextZoom]_vars

\* a connection target that is the id of no component
DanglingId == MaxComps + 1

VTypes == {"tree", "graph", "flowchart", "animation", "process", "timeline",
           "comparison", "mindmap"}

\* properties of component i: a label and the coordinates it has
PropertiesOf(i) ==
    {[label |-> "N", x |-> 100 * i, y |-> 200],
     [label |-> "N", y |-> 200],
     [label |-> "N", x |-> 100 * i]}

\* kind tags and properties of component i: a node with or without
\* coordinates, a text with coordinates
TaggedPropertiesOf(i) ==
    {<<"node", pr>> : pr \in PropertiesOf(i)}
    \cup {<<"text", [label |-> "N", x |-> 100 * i, y |-> 200]>>}

\* connection lists of a component of a document of n components: none,
\* one to the first or the last component or to no component, and a
\* dangling one before a resolving one
ConnLists(n) ==
    {<< >>} \cup {<<t>> : t \in {1, n, DanglingId}} \cup {<<DanglingId, 1>>}

ComponentsOf(i, n) ==
    {[id |-> i, type |-> tp[1], properties |-> tp[2], connections |-> cl] :
        tp \in TaggedPropertiesOf(i), cl \in ConnLists(n)}

\* the component sequences of ids 1..i of documents of n components
RECURSIVE ComponentSeqs(_, _)
ComponentSeqs(i, n) ==
    IF i = 0 THEN {<< >>}
    ELSE {Append(cs, c) : cs \in ComponentSeqs(i - 1, n), c \in ComponentsOf(i, n)}

\* the component sequences of documents of up to most components
CanvasDocs(most) == UNION {ComponentSeqs(n, n) : n \in 0..most}

\* highlight lists of a step: none or one component
HighlightSets(most) == {{}} \cup {{i} : i \in 1..most}

\* the canvas of a document, mounted and not yet drawn
InitCanvas ==
    /\ InitTreeVars /\ InitPlayVars
    /\ canvas \in [vtype : VTypes, components : CanvasDocs(MaxComps), highlight : {{}}]
    /\ drawn = << >>
    /\ lastOp = "init" /\ lastEnd = NoEnd /\ repeat = 0 /\ before = NoBefore
    /\ page = "ok"

\* the render effect runs: after the mount and when the current step, and
\* with it the highlight list, changes
RenderCanvas ==
    \E h \in HighlightSets(MaxComps) :
        /\ Mounted
        /\ canvas' = [canvas EXCEPT !.highlight = h]
        /\ drawn' = RenderEffect(canvas', zoom10)
        /\ lastOp' = "draw"
        /\ UNCHANGED <<treeVars, playVars, lastEnd, repeat, before, page>>

NextCanvas ==
    \/ RenderCanvas

SpecCanvas == InitCanvas /\ [][NextCanvas]_vars

(***************************************************************************)
(*                 Properties of the Interactive Tree Engine               *)
(***************************************************************************)
\* node objects that carry a value (updateNodeState on an id the map does
\* not hold leaves an object with a state only)
Full(ns) == {k \in DOMAIN ns : "value" \in DOMAIN ns[k]}

Children(ns, k) ==
    IF k \in Full(ns) THEN {ns[k].left, ns[k].right} \ {Null} ELSE {}

RECURSIVE Closure(_, _)
Closure(ns, S) ==
    LET T == S \cup UNION {Children(ns, k) : k \in S} IN
    IF T = S THEN S ELSE Closure(ns, T)

\* the ids reachable through child pointers from id (id included)
Subtree(ns, id) == IF id = Null THEN {} ELSE Closure(ns, {id}) \cap Full(ns)

IsBst(ns) ==
    \A n \in Full(ns) :
        /\ \A m \in Subtree(ns, ns[n].left) : ns[m].value < ns[n].value
        /\ \A m \in Subtree(ns, ns[n].right) : ns[m].value >= ns[n].value

RECURSIVE SortedInsert(_, _)
SortedInsert(sq, v) ==
    IF sq = << >> THEN <<v>>
    ELSE IF v < Head(sq) THEN <<v>> \o sq
    ELSE <<Head(sq)>> \o SortedInsert(Tail(sq), v)

RECURSIVE Sorted(_)
Sorted(sq) == IF sq = << >> THEN << >> ELSE SortedInsert(Sorted(Tail(sq)), Head(sq))

\* the last step completed an inorder traversal during which the tree was not edited
InorderCompleted ==
    /\ lastEnd.outcome = "done"
    /\ lastEnd.kind = "inorder"
    /\ lastEnd.disturbed = 0

\* C1: after any sequence of insert(value) calls from an empty tree, every
\* node has only smaller values below its left child and only greater or
\* equal values below its right child.
C1_BstAfterInserts == IsBst(nodes)

\* C2: a completed inorder traversal of a tree built by insert calls
\* publishes the inserted values in non-decreasing order.
C2_InorderPublishesSorted ==
    InorderCompleted => traversalOrder = Sorted(inserted)

\* C3: a traverse(kind) request made while a traversal is in flight changes
\* nothing: no second traversal starts, node states, the published output
\* and the in-flight traversal stay as they are.
C3_ReentrantRequestIsNoOp ==
    [][(trav # NoTrav /\ lastOp' = "traverse")
        => UNCHANGED <<nodes, rootId, traversalOrder, isTraversing, selectedTraversal, trav>>]_vars

\* a request arrived after the in-flight traversal had published a value
C3_Witness == lastOp = "traverse" /\ trav # NoTrav /\ traversalOrder # << >>

(***************************************************************************)
(*                  Properties of the Playback Controller                  *)
(***************************************************************************)
InRange == 0 <= currentStep /\ currentStep <= totalSteps - 1

\* C4: with at least one step the step index stays within 0 .. total-1 under
\* every interleaving of the transport operations, speed changes and ticks;
\* step_forward at total-1 and step_backward at 0 leave the index unchanged.
C4_StepIndexInRange ==
    totalSteps >= 1 =>
        /\ InRange
        /\ (lastOp = "step_forward" /\ before.step = totalSteps - 1)
                => currentStep = before.step
        /\ (lastOp = "step_backward" /\ before.step = 0) => currentStep = before.step

\* step_forward was called more often than there are steps to advance over
C4_Witness ==
    /\ totalSteps >= 2
    /\ lastOp = "step_forward" /\ repeat >= 2
    /\ before.step = totalSteps - 1 /\ currentStep = totalSteps - 1

ManualOps == {"pause", "step_forward", "step_backward", "reset"}

\* a document every step of which declares a positive duration
WellFormed == \A i \in 1..totalSteps : steps[i].has /\ steps[i].duration > 0

\* C5: pause, step_forward, step_backward or reset called while an autoplay
\* tick is pending cancels that tick: it is no longer pending afterwards, so
\* it can neither advance the step nor change isPlaying.  (Stated for
\* well-formed documents, where a pending tick waits a positive time.)
C5_ManualOpCancelsTick ==
    (WellFormed /\ lastOp \in ManualOps /\ before.pending) => ~timer.pending

\* C6: a tick fired in playing(i) gives playing(i+1) when i < total-1 and
\* idle at total-1 when i = total-1 (no wrap to 0, no playing on at the end).
C6_TickAdvancesOrStops ==
    lastOp = "tick" =>
        IF before.step < totalSteps - 1
        THEN currentStep = before.step + 1 /\ isPlaying
        ELSE currentStep = totalSteps - 1 /\ ~isPlaying

\* the tick at the last step of a document of several steps stopped playback
C6_Witness ==
    /\ lastOp = "tick" /\ totalSteps >= 2
    /\ before.playing /\ before.step = totalSteps - 1
    /\ ~isPlaying

\* C7: after step_forward or step_backward, called in any controller state
\* (playing or idle, at any index of a well-formed document), isPlaying is
\* false.
C7_SteppingForcesIdle ==
    (WellFormed /\ lastOp \in {"step_forward", "step_backward"} /\ totalSteps >= 1)
        => ~isPlaying

\* C8: play from an idle state with at least one step gives playing at step 0
\* when called at the last step, and playing at the unchanged step otherwise.
C8_PlayRestartsAtEnd ==
    (lastOp = "play" /\ totalSteps >= 1) =>
        /\ isPlaying
        /\ currentStep = IF before.step = totalSteps - 1 THEN 0 ELSE before.step

\* play was called at the last step of a document of several steps
C8_Witness ==
    /\ lastOp = "play" /\ totalSteps >= 2
    /\ before.step = totalSteps - 1 /\ ~before.playing
    /\ currentStep = 0 /\ isPlaying

\* C9: reset from any playback state gives step 0 and not playing, and so
\* does every further reset.
C9_ResetIdempotent ==
    lastOp = "reset" => currentStep = 0 /\ ~isPlaying /\ ~timer.pending

\* reset was called a second time in a row, the first time while playing
\* away from step 0
C9_Witness ==
    /\ lastOp = "reset" /\ repeat >= 2
    /\ currentStep = 0 /\ ~isPlaying
    /\ totalSteps >= 2

\* C10: the wait scheduled before an autoplay tick is strictly positive,
\* whatever the duration of the step (zero, negative or missing).
C10_WaitIsPositive == timer.pending => timer.wait > 0

\* C11: with a document whose steps sequence is empty the step index is 0,
\* playback is idle and no autoplay tick is pending in every reachable
\* state: play, step_forward, step_backward and reset have no effect.
C11_EmptyDocumentIsInert ==
    totalSteps = 0 => currentStep = 0 /\ ~isPlaying /\ ~timer.pending

\* play was requested twice in a row on a document without steps
C11_Witness == totalSteps = 0 /\ lastOp = "play" /\ repeat >= 2

\* C12: after load(preset), called with no traversal in flight on any tree,
\* the tree is the BST of the preset's values: one node per value (9 or 7),
\* the root holding the first value, every node reachable from the root.
C12_LoadBuildsPreset ==
    (lastOp = "load" /\ trav = NoTrav /\ page = "ok") =>
        \E p \in Presets :
            /\ rootId \in Full(nodes)
            /\ Full(nodes) = DOMAIN nodes
            /\ Cardinality(DOMAIN nodes) = Len(p)
            /\ nodes[rootId].value = p[1]
            /\ Subtree(nodes, rootId) = DOMAIN nodes

\* C13: every node created by insert on a non-empty tree gets an id that no
\* node already in the map has, however closely the inserts follow each
\* other: no insert overwrites an existing map entry.
C13_InsertIdIsFresh ==
    [][(lastOp' = "insert" /\ rootId # Null /\ Len(inserted') > Len(inserted))
        => clock' \notin DOMAIN nodes]_vars

\* the nodes drawn as being visited right now
VisitingNodes(ns) == {k \in DOMAIN ns : ns[k].state = "visiting"}

\* C14: while an inorder, preorder or postorder traversal is in flight at
\* most one node is in state visiting.
C14_OneNodeVisiting ==
    (trav # NoTrav /\ trav.kind # "levelorder") => Cardinality(VisitingNodes(nodes)) <= 1

\* a depth-first traversal is at its second visit: one node is visiting, the
\* node visited before it no longer is
C14_Witness ==
    /\ trav # NoTrav /\ trav.kind # "levelorder" /\ trav.pc = "sleep600"
    /\ Len(trav.result) >= 1
    /\ Cardinality(VisitingNodes(nodes)) = 1
    /\ \E k \in DOMAIN nodes : nodes[k].state = "visited"

\* the values of sq smaller than v / not smaller than v, in the order of sq
Smaller(sq, v) == LET Test(x) == x < v IN SelectSeq(sq, Test)
NotSmaller(sq, v) == LET Test(x) == x >= v IN SelectSeq(sq, Test)

\* The BST that inserting the values of sq in order into an empty tree gives
\* has Head(sq) at its root, the BST of the smaller later values as left
\* subtree and the BST of the other later values as right subtree.
RECURSIVE PreorderOf(_)
PreorderOf(sq) ==
    IF sq = << >> THEN << >>
    ELSE <<Head(sq)>> \o PreorderOf(Smaller(Tail(sq), Head(sq)))
                     \o PreorderOf(NotSmaller(Tail(sq), Head(sq)))

RECURSIVE PostorderOf(_)
PostorderOf(sq) ==
    IF sq = << >> THEN << >>
    ELSE PostorderOf(Smaller(Tail(sq), Head(sq)))
         \o PostorderOf(NotSmaller(Tail(sq), Head(sq))) \o <<Head(sq)>>

\* the last step completed a traversal of this kind during which the tree
\* was not edited
Completed(kind) ==
    /\ lastEnd.outcome = "done"
    /\ lastEnd.kind = kind
    /\ lastEnd.disturbed = 0

\* C15: on the tree built by a sequence of insert calls a completed preorder
\* traversal publishes each node's value before the values of its left
\* subtree and those before the values of its right subtree; a completed
\* postorder traversal publishes left subtree, right subtree, then the node.
C15_PreAndPostorderOutput ==
    /\ Completed("preorder") => traversalOrder = PreorderOf(inserted)
    /\ Completed("postorder") => traversalOrder = PostorderOf(inserted)

\* the largest power of two not above h
RECURSIVE TopBit(_)
TopBit(h) == IF h <= 1 THEN 1 ELSE 2 * TopBit(h \div 2)

\* the positions recs of a subtree, seen from the parent it hangs below as
\* left (b = 1) or right (b = 2) child: positions number the slots of a
\* binary tree level by level, left to right (root 1, children 2h and 2h+1)
Below(recs, b) ==
    [i \in 1..Len(recs) |-> [v |-> recs[i].v, h |-> recs[i].h + b * TopBit(recs[i].h)]]

\* the values of the BST built by inserting sq in order, with their positions
RECURSIVE Positions(_)
Positions(sq) ==
    IF sq = << >> THEN << >>
    ELSE <<[v |-> Head(sq), h |-> 1]>>
         \o Below(Positions(Smaller(Tail(sq), Head(sq))), 1)
         \o Below(Positions(NotSmaller(Tail(sq), Head(sq))), 2)

\* breadth-first order: by depth, within a depth from left to right
LevelorderOf(sq) ==
    LET Before(a, b) == a.h < b.h
        byPosition == SortSeq(Positions(sq), Before)
    IN  [i \in 1..Len(byPosition) |-> byPosition[i].v]

\* C16: on the tree built by a sequence of insert calls a completed
\* levelorder traversal publishes the values in breadth-first order: by
\* increasing depth, within a depth left child before right child in the
\* order of the parents.
C16_LevelorderOutput ==
    Completed("levelorder") => traversalOrder = LevelorderOf(inserted)

\* C17: when the document is replaced while an autoplay tick is pending, that
\* tick is canceled: a tick that is pending was scheduled for the document
\* in place, so no stale tick advances the step or changes the play state.
C17_NoStaleTick == timer.pending => timer.doc = steps

\* the document was replaced during playback with a tick pending; playback
\* goes on with a tick scheduled for the new document
C17_Witness ==
    /\ lastOp = "replace" /\ before.pending /\ before.playing
    /\ isPlaying /\ timer.pending /\ currentStep = before.step

\* C18: a change of speed while an autoplay wait is in flight leaves that
\* wait as it is (not shortened, lengthened or restarted); the new speed
\* applies to the waits scheduled afterwards.
C18_SpeedChangeKeepsWait ==
    [][(lastOp' = "speed" /\ timer.pending) => timer' = timer]_vars

\* C19: pause() from playing(i) gives idle at step i: isPlaying becomes false
\* and the step index, the speed and the zoom are unchanged.
C19_PauseKeepsStep ==
    [][lastOp' = "pause" => (~isPlaying' /\ UNCHANGED <<currentStep, speed2, zoom10>>)]_vars

\* playback was paused away from step 0, at a speed and a zoom that are not
\* the initial ones
C19_Witness ==
    /\ lastOp = "pause" /\ before.playing /\ ~isPlaying
    /\ currentStep >= 1 /\ speed2 # 2 /\ zoom10 # 10

\* C20: starting from zoom 1.0 every sequence of zoom-in and zoom-out keeps
\* 0.5 <= zoom <= 3.0; an operation changes zoom by exactly 0.2 unless that
\* would cross a bound, and then zoom becomes the bound (zoom in tenths).
C20_ZoomStaysInRange ==
    [][/\ lastOp' = "zoom_in" =>
            zoom10' = IF zoom10 + 2 > 30 THEN 30 ELSE zoom10 + 2
       /\ lastOp' = "zoom_out" =>
            zoom10' = IF zoom10 - 2 < 5 THEN 5 ELSE zoom10 - 2
       /\ 5 <= zoom10' /\ zoom10' <= 30]_vars

\* zoom-out stopped at the lower bound: 0.5 is no multiple of 0.2 below 1.0,
\* so the last zoom-out was cut short
C20_Witness == lastOp = "zoom_out" /\ zoom10 = 5

\* C21: zoom is independent of playback: zoom-in and zoom-out leave the step
\* index, isPlaying, the speed and a pending autoplay tick unchanged, and
\* play, pause, step_forward, step_backward, reset and the ticks leave zoom
\* unchanged.
C21_ZoomIndependent ==
    [][/\ lastOp' \in {"zoom_in", "zoom_out"} =>
            UNCHANGED <<currentStep, isPlaying, speed2, timer>>
       /\ lastOp' \in {"play", "pause", "step_forward", "step_backward", "reset", "tick"} =>
            UNCHANGED zoom10]_vars

\* zoom was changed during playback away from step 0 with a tick pending,
\* which is still pending
C21_Witness ==
    /\ lastOp = "zoom_in" /\ zoom10 > 10
    /\ before.playing /\ before.pending
    /\ isPlaying /\ timer.pending /\ currentStep >= 1

\* C22: when a traversal request is accepted (none in flight, tree not
\* empty), every node's state is normal and the published output is empty
\* before the first visit, whatever an earlier traversal left: after the
\* handler the output is empty, the map the traversal works on has only
\* normal nodes, and in the published map only the node of the first visit
\* (already marked visiting) is not normal.
C22_ResetBeforeFirstVisit ==
    [][(lastOp' = "traverse" /\ ~isTraversing /\ rootId # Null) =>
         /\ traversalOrder' = << >>
         /\ \A k \in DOMAIN nodes' :
               (trav' = NoTrav \/ k # trav'.cur) => nodes'[k].state = "normal"
         /\ trav' # NoTrav =>
               /\ trav'.result = << >>
               /\ \A k \in DOMAIN trav'.snap : trav'.snap[k].state = "normal"]_vars

\* a traversal was accepted on a tree of two nodes that an earlier traversal
\* had visited (a timed wait ended after the last insertion)
C22_Witness ==
    /\ lastOp = "traverse" /\ trav # NoTrav /\ trav.result = << >>
    /\ elapsed /\ Cardinality(DOMAIN nodes) >= 2

\* C23: after clear() the node map is empty, the root pointer is null and
\* the traversal output sequence is empty.
C23_ClearEmptiesTree ==
    lastOp = "clear" => (nodes = EmptyMap /\ rootId = Null /\ traversalOrder = << >>)

\* the tree was cleared after two insertions and a visit of a traversal
C23_Witness ==
    lastOp = "clear" /\ clock >= 2 /\ elapsed /\ nodes = EmptyMap

\* the text has no number at its start (empty, or no digit after an
\* optional sign)
NonNumeric(text) ==
    \/ text = << >>
    \/ text[1] \notin DigitChars \cup {"-", "+"}
    \/ text[1] \in {"-", "+"} /\ (Len(text) = 1 \/ text[2] \notin DigitChars)

\* C24: an insertion request whose input does not parse to a number (empty
\* or non-numeric text) is rejected before any mutation: the node map, the
\* root pointer, every node's fields and the traversal output are unchanged.
C24_NonNumericInsertRejected ==
    [][(lastOp' \in {"insert", "insert_rejected"} /\ NonNumeric(inputValue)) =>
         UNCHANGED <<nodes, rootId, traversalOrder, trav, inserted>>]_vars

\* a request with the text ".5" was rejected on a tree of two nodes with a
\* published traversal output
C24_Witness ==
    /\ lastOp = "insert_rejected" /\ inputValue = <<".", "5">>
    /\ Cardinality(DOMAIN nodes) >= 2 /\ traversalOrder # << >>

\* C28: every accepted traversal eventually completes: after finitely many
\* timed waits the running flag is false again (also when the traversal
\* body fails), and a new request is accepted.
C28_TraversalTerminates ==
    isTraversing ~> (~isTraversing /\ (rootId # Null => ~Rejected))

\* a levelorder traversal is in flight
InLevelorder == trav # NoTrav /\ trav.kind = "levelorder"

\* the ids in the queue of levelorderTraversal
Queue(t) == {t.stack[i] : i \in 1..Len(t.stack)}

\* the ids enqueued whose value is not appended yet: the queue and the node
\* dequeued whose 600 ms wait is running
Pending(t) == Queue(t) \cup (IF t.pc = "sleep600" THEN {t.cur} ELSE {})

\* the ids whose state is visited in ns2 and was not in ns1
TurnedVisited(ns1, ns2) ==
    {k \in DOMAIN ns2 : /\ ns2[k].state = "visited"
                        /\ (k \notin DOMAIN ns1 \/ ns1[k].state # "visited")}

\* C30 (as stated): during a levelorder traversal exactly the nodes in the
\* queue are visiting.
C30_VisitingIsQueue ==
    InLevelorder => VisitingNodes(nodes) = Queue(trav)

\* C30 (amended): during a levelorder traversal every visiting node is in
\* the queue or is the dequeued node whose 600 ms wait is running (a node is
\* marked at enqueue time and stays visiting after it is dequeued, until its
\* value is appended), and a node turns visited only in the step that
\* appends its value.
C30_VisitingIsPending ==
    [][/\ InLevelorder' => VisitingNodes(nodes') \subseteq Pending(trav')
       /\ (InLevelorder /\ TurnedVisited(nodes, nodes') # {}) =>
            /\ lastOp' = "timer600"
            /\ TurnedVisited(nodes, nodes') = {trav.cur}
            /\ traversalOrder' = Append(trav.result, trav.snap[trav.cur].value)]_vars

\* the root is visited, its two children are visiting: one is dequeued and
\* in its 600 ms wait, the other is in the queue
C30_Witness ==
    /\ InLevelorder /\ trav.pc = "sleep600" /\ Len(trav.result) = 1
    /\ Cardinality(VisitingNodes(nodes)) = 2
    /\ trav.cur \in VisitingNodes(nodes) /\ trav.cur \notin Queue(trav)
    /\ Queue(trav) \subseteq VisitingNodes(nodes) /\ Queue(trav) # {}

\* C29: while playing with no manual input and no document change, the step
\* index changes only by +1 per tick (no step skipped, never decreasing),
\* and playback eventually reaches idle at step total-1.
C29_PlaysToTheEnd ==
    /\ [][isPlaying =>
            \/ isPlaying' /\ currentStep' = currentStep + 1
            \/ ~isPlaying' /\ currentStep' = currentStep /\ currentStep = totalSteps - 1]_vars
    /\ isPlaying ~> (~isPlaying /\ currentStep = totalSteps - 1)

\* playback of a document of MaxSteps steps stopped by its last tick at the
\* last step, after ticks that advanced it
C29_Witness ==
    /\ lastOp = "tick" /\ repeat >= 2 /\ before.playing
    /\ ~isPlaying /\ ~timer.pending
    /\ totalSteps = MaxSteps /\ currentStep = totalSteps - 1

(***************************************************************************)
(*                       Properties of the renderer                        *)
(***************************************************************************)
\* the shapes of a drawing
Shapes(d) == {d[i] : i \in 1..Len(d)}
Edges(d) == {s \in Shapes(d) : s.op \in {"line", "arrow"}}
Bodies(d) == {s \in Shapes(d) : s.op \in {"circle", "box", "text"}}

\* the ids of the components of a document
ComponentIds(data) == {data.components[i].id : i \in 1..Len(data.components)}

\* the document without the connections whose target is the id of no component
WithoutDangling(data) ==
    LET Resolves(targetId) == targetId \in ComponentIds(data) IN
    [data EXCEPT !.components =
        [i \in 1..Len(@) |-> [@[i] EXCEPT !.connections = SelectSeq(@, Resolves)]]]

\* C25: in both rendering strategies a connection whose target id matches
\* no component is skipped: no line is drawn for it, rendering completes,
\* and everything else is drawn as if the dangling id were absent.
C25_DanglingConnectionSkipped ==
    lastOp = "draw" =>
        /\ \A s \in Edges(drawn) : s.to \in ComponentIds(canvas)
        /\ drawn = RenderEffect(WithoutDangling(canvas), zoom10)

\* a box-and-arrow drawing of a document whose first component lists a
\* dangling id before a resolving one: the arrow of the second is drawn
C25_Witness ==
    /\ lastOp = "draw" /\ canvas.vtype = "process"
    /\ Len(canvas.components) = MaxComps
    /\ canvas.components[2].connections = <<DanglingId, 1>>
    /\ \E s \in Edges(drawn) : s.from = 2 /\ s.to = 1

\* the component has no numeric x or no numeric y
LacksCoordinates(c) == "x" \notin DOMAIN c.properties \/ "y" \notin DOMAIN c.properties

\* C26: for every visualization type a component lacking a numeric x or y
\* is not drawn at all (no circle, no box, no label), and no connection
\* line is drawn from it or to it.
C26_NoCoordinatesNotDrawn ==
    lastOp = "draw" =>
        \A i \in 1..Len(canvas.components) :
            LacksCoordinates(canvas.components[i]) =>
                /\ \A s \in Bodies(drawn) : s.of # canvas.components[i].id
                /\ \A s \in Edges(drawn) : s.from # canvas.components[i].id
                                            /\ s.to # canvas.components[i].id

NodeAndEdgeTypes == {"tree", "graph"}

VisitedNodes(ns) == {k \in Full(ns) : ns[k].state = "visited"}

\* how often the value v is in the sequence sq / held by the nodes of S
TimesIn(sq, v) == Cardinality({i \in 1..Len(sq) : sq[i] = v})
TimesHeld(ns, S, v) == Cardinality({k \in S : ns[k].value = v})

\* the values of sq are the values of the visited nodes of ns
ListsVisited(sq, ns) ==
    /\ \A i \in 1..Len(sq) : \E k \in VisitedNodes(ns) : ns[k].value = sq[i]
    /\ \A k \in VisitedNodes(ns) :
          TimesIn(sq, ns[k].value) = TimesHeld(ns, VisitedNodes(ns), ns[k].value)

\* C31: within a traversal a node's value is appended to the output
\* strictly after the node became visiting and in the step in which it
\* becomes visited; in every state the published output lists exactly the
\* values of the nodes in state visited, and it only grows by appending
\* (a clear or a new traversal empties it).
C31_OutputListsVisited ==
    [][/\ traversalOrder' \notin {traversalOrder, << >>} =>
            \E k \in VisitingNodes(nodes) \cap Full(nodes) :
                /\ TurnedVisited(nodes, nodes') = {k}
                /\ traversalOrder' = Append(traversalOrder, nodes[k].value)
       /\ TurnedVisited(nodes, nodes') # {} => Len(traversalOrder') = Len(traversalOrder) + 1
       /\ ListsVisited(traversalOrder', nodes')]_vars

\* ---------------------------------------------------------------------
\* the (parent, side) pairs whose child pointer names node k
ParentSlots(ns, k) ==
    {ps \in Full(ns) \X {"left", "right"} : Ptr(ns[ps[1]], ps[2]) = k}

\* the ids reachable from k through at least one child pointer
Descendants(ns, k) == Closure(ns, Children(ns, k))

OwningTree(ns, root) ==
    /\ \A k \in Full(ns) \ {root} : Cardinality(ParentSlots(ns, k)) = 1
    /\ root # Null => ParentSlots(ns, root) = {}
    /\ \A k \in Full(ns) : ns[k].left # Null => ns[k].left # ns[k].right
    /\ \A k \in Subtree(ns, root) : k \notin Descendants(ns, k)

\* C32: in every reachable state the node store is an owning tree: every
\* node but the root is the left or right child of exactly one node, the
\* root is the child of none, no node is both a left and a right child, and
\* following child pointers from the root never meets a node twice.
C32_OwningTree == OwningTree(nodes, rootId)

\* ---------------------------------------------------------------------
\* the child slots of the nodes of ns whose pointer differs in ns2
ChangedSlots(ns, ns2) ==
    {ps \in Full(ns) \X {"left", "right"} :
        IF ps[1] \in Full(ns2) THEN Ptr(ns[ps[1]], ps[2]) # Ptr(ns2[ps[1]], ps[2]) ELSE TRUE}

\* node k of ns is in ns2 with the same fields fs
Keeps(ns, ns2, k, fs) ==
    IF k \in Full(ns2) THEN \A f \in fs : ns[k][f] = ns2[k][f] ELSE FALSE

InsertEffect ==
    (lastOp' = "insert" /\ rootId # Null /\ Len(inserted') > Len(inserted)) =>
        /\ Cardinality(DOMAIN nodes') = Cardinality(DOMAIN nodes) + 1
        /\ Cardinality(ChangedSlots(nodes, nodes')) = 1
        /\ \A ps \in ChangedSlots(nodes, nodes') : Ptr(nodes[ps[1]], ps[2]) = Null
        /\ rootId' = rootId
        /\ traversalOrder' = traversalOrder
        /\ \A k \in Full(nodes) : Keeps(nodes, nodes', k, {"value", "x", "y", "state"})

TraversalEffect ==
    lastOp' \in {"traverse", "timer600", "timer400"} =>
        /\ rootId' = rootId
        /\ Cardinality(DOMAIN nodes') = Cardinality(DOMAIN nodes)
        /\ \A k \in Full(nodes) : Keeps(nodes, nodes', k, {"value", "x", "y", "left", "right"})

\* C33: an insert on a non-empty tree adds exactly one node, fills exactly
\* one empty child slot and leaves the root pointer, the output and the
\* value, x, y and state of every existing node as they were; a step of a
\* traversal changes node states and the output only, never a value, x, y,
\* left or right, the root pointer or the number of nodes.
C33_InsertAndTraversalFrame == [][InsertEffect /\ TraversalEffect]_vars

\* ---------------------------------------------------------------------
\* the ids met after following d child pointers from root
RECURSIVE Level(_, _, _)
Level(ns, root, d) ==
    IF d = 0 THEN {root} \ {Null}
    ELSE UNION {Children(ns, k) : k \in Level(ns, root, d - 1)}

Depths(ns) == 0..Cardinality(DOMAIN ns)

\* x and y of the node attached as side child of a node at (px, py) after
\* descending d levels; x is kept in units of 1/XScale
PlacedBelow(node, px, py, side, d) ==
    /\ node.y = py + 100
    /\ node.x * d = IF side = "left" THEN px * d - 150 * XScale
                                     ELSE px * d + 150 * XScale

PlacedByInsert ==
    (lastOp' = "insert" /\ Len(inserted') > Len(inserted)) =>
        IF rootId = Null
        THEN nodes'[rootId'].x = 500 * XScale /\ nodes'[rootId'].y = 100
        ELSE \E ps \in ChangedSlots(nodes, nodes') : \E d \in Depths(nodes') \ {0} :
                 /\ ps[1] \in Level(nodes, rootId, d - 1)
                 /\ Ptr(nodes'[ps[1]], ps[2]) = clock'
                 /\ PlacedBelow(nodes'[clock'], nodes[ps[1]].x, nodes[ps[1]].y, ps[2], d)

YByDepth(ns, root) ==
    \A d \in Depths(ns) : \A k \in Level(ns, root, d) \cap Full(ns) :
        ns[k].y = 100 * (d + 1)

\* C34: the root is placed at (500, 100); a node attached below parent p
\* after descending d levels gets y = p.y + 100 and x = p.x - 150/d as a
\* left child, x = p.x + 150/d as a right child, so every node's y is
\* 100 * (its depth + 1), the root being at depth 0.
C34_PlacementByDepth == [][PlacedByInsert /\ YByDepth(nodes', rootId')]_vars

\* ---------------------------------------------------------------------
\* C35: in both rendering strategies a connection is drawn with highlight
\* styling if and only if the id of its source component or of its target
\* component is in the highlight set of the current step.
C35_EdgeHighlightEitherEnd ==
    lastOp = "draw" =>
        \A s \in Edges(drawn) :
            s.highlighted <=> (s.from \in canvas.highlight \/ s.to \in canvas.highlight)

\* ---------------------------------------------------------------------
\* the circles drawn for the component of the given id
CirclesOf(d, id) == {j \in 1..Len(d) : d[j].op = "circle" /\ d[j].of = id}

\* C36: under the tree/graph strategy every component that has a numeric x
\* and y, whatever its kind tag and the values of its coordinates, is drawn
\* as exactly one filled circle whose radius is properties.width, or 40
\* when width is 0 or missing.
C36_EveryPlacedComponentIsCircle ==
    (lastOp = "draw" /\ canvas.vtype \in NodeAndEdgeTypes) =>
        \A i \in 1..Len(canvas.components) :
            LET c == canvas.components[i] IN
            ~LacksCoordinates(c) =>
                /\ Cardinality(CirclesOf(drawn, c.id)) = 1
                /\ \A j \in CirclesOf(drawn, c.id) :
                      drawn[j].radius = IF "width" \in DOMAIN c.properties /\ c.properties.width # 0
                                        THEN c.properties.width ELSE 40

\* ---------------------------------------------------------------------
\* the place of the component of the given id in the document
PositionOf(data, id) == FindComponent(data.components, id)

\* the places in a drawing of its connection lines, of all it draws for
\* components, and of the component shapes themselves
EdgePlaces(d) == {j \in 1..Len(d) : d[j].op \in {"line", "arrow"}}
BodyPlaces(d) == {j \in 1..Len(d) : d[j].op \in {"circle", "box", "text"}}
ShapePlaces(d) == {j \in 1..Len(d) : d[j].op \in {"circle", "box"}}

\* C37: within one render call every connection line is drawn before any
\* component shape, and the component shapes are drawn in the order the
\* components have in the document.
C37_EdgesThenShapesInOrder ==
    lastOp = "draw" =>
        /\ \A i \in EdgePlaces(drawn) : \A j \in BodyPlaces(drawn) : i < j
        /\ \A i, j \in ShapePlaces(drawn) :
              i < j => PositionOf(canvas, drawn[i].of) < PositionOf(canvas, drawn[j].of)

\* a box-and-arrow drawing of a full document: every component's box after
\* the arrows
C37_Witness ==
    /\ lastOp = "draw" /\ canvas.vtype = "flowchart"
    /\ Len(canvas.components) = MaxComps
    /\ Cardinality(EdgePlaces(drawn)) >= 2
    /\ Cardinality(ShapePlaces(drawn)) = MaxComps

\* ---------------------------------------------------------------------
\* the map holds under id a node with a value and coordinates
Present(ns, id) ==
    IF id \in DOMAIN ns THEN {"value", "x", "y"} \subseteq DOMAIN ns[id] ELSE FALSE

\* C38: in every reachable state, under any interleaving of insert, clear,
\* load and the state updates of a running traversal, the root pointer is
\* null exactly when the node map is empty, and the root pointer and every
\* non-null left or right pointer name a node that is in the map with a
\* value and coordinates.
C38_PointersResolve ==
    /\ rootId = Null <=> DOMAIN nodes = {}
    /\ rootId # Null => Present(nodes, rootId)
    /\ \A k \in DOMAIN nodes : \A side \in {"left", "right"} :
          Ptr(nodes[k], side) # Null => Present(nodes, Ptr(nodes[k], side))

\* ---------------------------------------------------------------------
\* a traversal of some kind ran to its end with no insert, clear or load
\* issued during it
CompletedUndisturbed == lastEnd.outcome = "done" /\ lastEnd.disturbed = 0

\* C39: a traversal of any of the four kinds that completes with no insert,
\* clear or load during it visits each node exactly once: its output is a
\* permutation of the multiset of the node values, its length is the node
\* count, and on completion every node is visited and none is visiting.
C39_VisitsEachNodeOnce ==
    CompletedUndisturbed =>
        /\ Len(traversalOrder) = Cardinality(DOMAIN nodes)
        /\ \A k \in DOMAIN nodes :
              /\ k \in Full(nodes)
              /\ TimesIn(traversalOrder, nodes[k].value)
                    = TimesHeld(nodes, DOMAIN nodes, nodes[k].value)
              /\ nodes[k].state = "visited"
        /\ \A i \in 1..Len(traversalOrder) :
              \E k \in Full(nodes) : nodes[k].value = traversalOrder[i]

\* ---------------------------------------------------------------------
\* C40: for a tree document a change of the traversal mode forces the
\* playback controller to step 0 and idle and cancels any pending autoplay
\* tick; for a document of any other type a change of the traversal mode
\* leaves the step index and isPlaying unchanged.
C40_ModeChangeResetsTreeOnly ==
    [][/\ (lastOp' = "mode" /\ traversalMode' # traversalMode) =>
            IF isTree THEN currentStep' = 0 /\ ~isPlaying' /\ ~timer'.pending
                      ELSE UNCHANGED <<currentStep, isPlaying>>
       /\ ModeEffect(FALSE, isPlaying, currentStep)
             = [playing |-> isPlaying, step |-> currentStep]]_vars

\* the traversal mode of a tree document was changed during playback away
\* from step 0 with a tick pending: playback is idle at step 0, no tick
\* pending
C40_Witness ==
    /\ lastOp = "mode" /\ isTree
    /\ before.playing /\ before.pending /\ before.step >= 1
    /\ currentStep = 0 /\ ~isPlaying /\ ~timer.pending

====
